---- MODULE Spec2Model ----
\* A model of graphql-helix's processRequest (packages/core/lib/process-request.ts):
\* the request-to-delivery-mode resolution of one GraphQL request, stage by stage,
\* with every collaborator (parse, validate, getOperationAST, the variables
\* decoder, the context and root-value factories, execute, subscribe and the
\* payload formatting hook) an opaque function that returns or throws.
EXTENDS Integers, Sequences, FiniteSets, TLC

\* ---------------------------------------------------------------------------
\* Bounds
\* ---------------------------------------------------------------------------

\* The largest number of errors the validate collaborator reports.
MaxValidationErrors == 2

\* The largest number of unsubscribe calls the consumer makes on one result.
MaxUnsubscribe == 2

\* ---------------------------------------------------------------------------
\* Values
\* ---------------------------------------------------------------------------

\* A JavaScript value that may be undefined: <<>> is undefined, <<v>> is v.
None == <<>>
Some(v) == <<v>>

\* new GraphQLError(message), as far as this file uses it.
GraphQLError(message) == [message |-> message]

\* new HttpError(status, message, details): status and message are always set,
\* headers and graphqlErrors only when the details carry them.
HttpError(status, message, headers, graphqlErrors) ==
  [status |-> Some(status), message |-> message,
   headers |-> headers, graphqlErrors |-> graphqlErrors]

\* The values a collaborator throws: a plain Error, which declares neither
\* status nor headers nor graphqlErrors, and an error that declares all three.
PlainError == [status |-> None, message |-> "boom",
               headers |-> None, graphqlErrors |-> None]
DeclaringError == [status |-> Some(418), message |-> "teapot",
                   headers |-> Some(<<[name |-> "X-Reason", value |-> "tea"]>>),
                   graphqlErrors |-> Some(<<GraphQLError("custom")>>)]
Thrown == {PlainError, DeclaringError}

\* The error a failing parse throws (a GraphQL syntax error).
SyntaxErrors == {[status |-> None, message |-> "Syntax Error: Unexpected Name",
                  headers |-> None, graphqlErrors |-> None]}

EventStream == "text/event-stream"
Methods == {"GET", "POST", "PUT"}
Accepts == {None, Some(EventStream), Some("application/json")}

\* options.query: absent, query text, or a parsed document.
Queries == {[kind |-> "null"], [kind |-> "string"], [kind |-> "Document"]}

\* options.variables: absent, serialized text, or a decoded mapping.
ValidJson == "{\"a\":1}"
VariableInputs ==
  {[kind |-> "undefined"],
   [kind |-> "string", text |-> ""],
   [kind |-> "string", text |-> "not-json"],
   [kind |-> "string", text |-> ValidJson],
   [kind |-> "object", value |-> "vars"]}

OperationKinds == {"query", "mutation", "subscription"}

\* What execute or subscribe resolves with: one execution result (data, or the
\* errors met before streaming began) or an asynchronous sequence.
SingleValues == {[kind |-> "single", value |-> [data |-> "d"]],
                 [kind |-> "single", value |-> [errors |-> <<GraphQLError("e")>>]]}
Iterables == {[kind |-> "iterable"]}

\* isHttpMethod(target, subject) of ./util.
isHttpMethod(target, subject) == subject = target

\* isAsyncIterable(value) of ./util.
isAsyncIterable(value) == value.kind = "iterable"

\* ---------------------------------------------------------------------------
\* State
\* ---------------------------------------------------------------------------

VARIABLES
  options,        \* the ProcessRequestOptions of this call
  pc,             \* the position of processRequest
  document,       \* let document (line 110)
  operation,      \* let operation (line 111)
  validationErrors, \* const validationErrors (line 45)
  variableValues, \* let variableValues (line 161)
  context,        \* let context (line 108)
  rootValue,      \* let rootValue (line 109)
  raw,            \* what execute / subscribe resolved with
  executionError, \* what the inner catch clause (line 290) caught
  error,          \* what the outer catch clause (line 299) caught
  result,         \* what the promise of processRequest resolved with
  outcome,        \* "pending", "resolved" or "rejected": the returned promise
  calls,          \* the collaborators invoked so far, in order
  failedStage,    \* the stage whose failure reached a catch clause first
  chunks,         \* what the consumer's onResult callback received
  subscribed,     \* "idle", "resolved" or "rejected": the consumer's subscribe call
  unsubscribed    \* how often the consumer called unsubscribe

\* The delivery of the result over a Node response (response-node.ts) and the
\* asynchronous sequence a streaming result drains.
VARIABLES
  adapter,        \* "idle", "streaming", "done" or "failed": the sendResult call
  wire,           \* the calls made on rawResponse so far, in order
  connection,     \* "open" or "closed": the physical connection
  closeHandler,   \* whether rawResponse.on("close", ...) has registered a handler
  source,         \* the asynchronous sequence: its elements, and whether it ends
  pulled,         \* how many elements the for await loop has taken from it
  iter,           \* "open", "done" (it ended) or "closed" (return() was called)
  returned,       \* how often the sequence's return() was called
  unsubAt         \* each unsubscribe call: the state of subscribe, and the caller

dvars == <<adapter, wire, connection, closeHandler, source, pulled, iter,
           returned, unsubAt>>

\* A reader of the ReadableStream ponyfill and the read loop of sendNodeResponse
\* (response-node.ts).
VARIABLES
  reader,         \* "none" or "open": whether getReader() has been called
  listening,      \* let listening of getReader
  pullQueue,      \* const pullQueue: the reads that wait, by their number
  pushQueue,      \* const pushQueue: the results that wait for a read
  reads,          \* what each read() call resolved with, or None while it waits
  enqueued,       \* how many values the source has enqueued
  closeCalled,    \* whether the source has called controller.close()
  cancelled,      \* how often source.cancel was called
  released,       \* how often releaseLock() or cancel() of the reader was called
  nodeLoop,       \* "idle", "reading" or "ended": sendNodeResponse and its loop
  nodeWire,       \* the calls made on nodeResponse so far, in order
  nodeConnection, \* "open" or "closed": the client connection of nodeResponse
  nodeHandler     \* whether nodeResponse.on("close", ...) has registered a handler

rvars == <<reader, listening, pullQueue, pushQueue, reads, enqueued, closeCalled,
           cancelled, released, nodeLoop, nodeWire, nodeConnection, nodeHandler>>

vars == <<options, pc, document, validationErrors, operation, variableValues, context, rootValue,
          raw, executionError, error, result, outcome, calls, failedStage,
          chunks, subscribed, unsubscribed, dvars, rvars>>

\* const accept = ...; const isEventStream = accept === "text/event-stream"
accept == options.request.headers.accept
isEventStream == accept = Some(EventStream)

\* Nothing has been sent and no sequence is being drained.
NoSource == [items |-> <<>>, ends |-> TRUE]

Undelivered ==
  /\ adapter = "idle"
  /\ wire = <<>>
  /\ connection = "open"
  /\ closeHandler = FALSE
  /\ source = NoSource
  /\ pulled = 0
  /\ iter = "open"
  /\ returned = 0
  /\ unsubAt = <<>>

\* No reader has been obtained and sendNodeResponse has not been called.
Unread ==
  /\ reader = "none"
  /\ listening = TRUE
  /\ pullQueue = <<>>
  /\ pushQueue = <<>>
  /\ reads = <<>>
  /\ enqueued = 0
  /\ closeCalled = FALSE
  /\ cancelled = 0
  /\ released = 0
  /\ nodeLoop = "idle"
  /\ nodeWire = <<>>
  /\ nodeConnection = "open"
  /\ nodeHandler = FALSE

Init ==
  /\ options \in
       [request : [method : Methods,
                   headers : [hasGet : BOOLEAN, accept : Accepts]],
        query : Queries,
        variables : VariableInputs,
        operationName : {None, Some("Op")},
        contextFactory : BOOLEAN,
        rootValueFactory : BOOLEAN,
        variablesFactory : BOOLEAN,
        formatPayload : BOOLEAN]
  /\ pc = "method"
  /\ document = None
  /\ validationErrors = None
  /\ operation = None
  /\ variableValues = None
  /\ context = None
  /\ rootValue = None
  /\ raw = None
  /\ executionError = None
  /\ error = None
  /\ result = None
  /\ outcome = "pending"
  /\ calls = <<>>
  /\ failedStage = "none"
  /\ chunks = <<>>
  /\ subscribed = "idle"
  /\ unsubscribed = 0
  /\ Undelivered
  /\ Unread

\* throw e, from a place of the outer try block that is outside the inner one.
Throw(e, stage) ==
  /\ error' = Some(e)
  /\ failedStage' = stage
  /\ pc' = "catch"
  /\ UNCHANGED executionError

\* throw e, from inside the inner try block.
ThrowInner(e, stage) ==
  /\ executionError' = Some(e)
  /\ failedStage' = stage
  /\ pc' = "catchExecution"
  /\ UNCHANGED error

Call(name) == calls' = Append(calls, name)

\* if (!isHttpMethod("GET", ...) && !isHttpMethod("POST", ...)) throw 405
CheckMethod ==
  /\ pc = "method"
  /\ IF /\ ~isHttpMethod("GET", options.request.method)
        /\ ~isHttpMethod("POST", options.request.method)
     THEN Throw(HttpError(405, "GraphQL only supports GET and POST requests.",
                          Some(<<[name |-> "Allow", value |-> "GET, POST"]>>), None),
                "method")
     ELSE /\ pc' = "query"
          /\ UNCHANGED <<executionError, error, failedStage>>
  /\ UNCHANGED <<options, document, validationErrors, operation, variableValues, context, rootValue,
                 raw, result, outcome, calls, chunks, subscribed, unsubscribed>>
  /\ UNCHANGED dvars
  /\ UNCHANGED rvars

\* CheckQuery with the absent query let through to the parser.
CheckQuery_Unchecked ==
  /\ pc = "query"
  /\ pc' = "parse"
  /\ UNCHANGED <<executionError, error, failedStage>>
  /\ UNCHANGED <<options, document, validationErrors, operation, variableValues,
                 context, rootValue, raw, result, outcome, calls, chunks,
                 subscribed, unsubscribed>>
  /\ UNCHANGED dvars
  /\ UNCHANGED rvars

\* if (query == null) throw 400
CheckQuery ==
  /\ pc = "query"
  /\ IF options.query.kind = "null"
     THEN Throw(HttpError(400, "Must provide query string.", None, None), "query")
     ELSE /\ pc' = "parse"
          /\ UNCHANGED <<executionError, error, failedStage>>
  /\ UNCHANGED <<options, document, validationErrors, operation, variableValues, context, rootValue,
                 raw, result, outcome, calls, chunks, subscribed, unsubscribed>>
  /\ UNCHANGED dvars
  /\ UNCHANGED rvars

\* parse(text): the parsed document, or a thrown syntax error.
\* parseQuery (lines 23-37): a parsed document passes through unparsed; a
\* syntax error is rethrown as a 400 carrying it.
ParseQuery ==
  /\ pc = "parse"
  /\ IF options.query.kind = "Document"
     THEN /\ document' = Some([kind |-> "Document"])
          /\ pc' = "validate"
          /\ UNCHANGED <<executionError, error, failedStage, calls>>
     ELSE /\ Call("parse")
          /\ \/ /\ document' = Some([kind |-> "Document"])
                /\ pc' = "validate"
                /\ UNCHANGED <<executionError, error, failedStage>>
             \/ \E syntaxError \in SyntaxErrors :
                  /\ Throw(HttpError(400, "GraphQL syntax error.", None,
                                     Some(<<syntaxError>>)), "parse")
                  /\ UNCHANGED document
  /\ UNCHANGED <<options, validationErrors, operation, variableValues, context, rootValue,
                 raw, result, outcome, chunks, subscribed, unsubscribed>>
  /\ UNCHANGED dvars
  /\ UNCHANGED rvars

\* The list of n errors validate(schema, document, rules) returns.
ValidationErrors(n) == [i \in 1..n |-> [message |-> "invalid", index |-> i]]

\* ValidationHttpError carrying the first validation error only.
ValidationHttpError_FirstOnly(errors) ==
  HttpError(400, "GraphQL validation error.", None, Some(<<errors[1]>>))

\* new HttpError(400, "GraphQL validation error.", {graphqlErrors: validationErrors})
ValidationHttpError(errors) ==
  HttpError(400, "GraphQL validation error.", None, Some(errors))

\* validateDocument (lines 39-51): any validation error is thrown as a 400
\* carrying the whole list; an exception of validate itself is not caught here.
ValidateDocument ==
  /\ pc = "validate"
  /\ Call("validate")
  /\ \/ \E n \in 0..MaxValidationErrors :
          /\ validationErrors' = Some(ValidationErrors(n))
          /\ IF Len(ValidationErrors(n)) # 0
             THEN Throw(ValidationHttpError(ValidationErrors(n)), "validate")
             ELSE /\ pc' = "operation"
                  /\ UNCHANGED <<executionError, error, failedStage>>
     \/ /\ \E e \in Thrown : Throw(e, "validate")
        /\ UNCHANGED validationErrors
  /\ UNCHANGED <<options, document, operation, variableValues, context, rootValue,
                 raw, result, outcome, chunks, subscribed, unsubscribed>>
  /\ UNCHANGED dvars
  /\ UNCHANGED rvars

\* getExecutableOperation (lines 53-65): getOperationAST returns the operation
\* to run, or null when the document and the name select none.
GetExecutableOperation ==
  /\ pc = "operation"
  /\ Call("getOperationAST")
  /\ \/ \E kind \in OperationKinds :
          /\ operation' = Some([operation |-> kind])
          /\ pc' = "mutation"
          /\ UNCHANGED <<executionError, error, failedStage>>
     \/ /\ Throw(HttpError(400, "Could not determine what operation to execute.",
                           None, None), "operation")
        /\ UNCHANGED operation
     \/ \E e \in Thrown : Throw(e, "operation") /\ UNCHANGED operation
  /\ UNCHANGED <<options, document, validationErrors, variableValues, context, rootValue,
                 raw, result, outcome, chunks, subscribed, unsubscribed>>
  /\ UNCHANGED dvars
  /\ UNCHANGED rvars

\* CheckMutation with the method never compared.
CheckMutation_AnyMethod ==
  /\ pc = "mutation"
  /\ pc' = "variables"
  /\ UNCHANGED <<executionError, error, failedStage>>
  /\ UNCHANGED <<options, document, validationErrors, operation, variableValues,
                 context, rootValue, raw, result, outcome, calls, chunks,
                 subscribed, unsubscribed>>
  /\ UNCHANGED dvars
  /\ UNCHANGED rvars

\* if (operation.operation === "mutation" && isHttpMethod("GET", ...)) throw 405
CheckMutation ==
  /\ pc = "mutation"
  /\ IF /\ operation[1].operation = "mutation"
        /\ isHttpMethod("GET", options.request.method)
     THEN Throw(HttpError(405,
                          "Can only perform a mutation operation from a POST request.",
                          Some(<<[name |-> "Allow", value |-> "POST"]>>), None),
                "mutation")
     ELSE /\ pc' = "variables"
          /\ UNCHANGED <<executionError, error, failedStage>>
  /\ UNCHANGED <<options, document, validationErrors, operation, variableValues, context, rootValue,
                 raw, result, outcome, calls, chunks, subscribed, unsubscribed>>
  /\ UNCHANGED dvars
  /\ UNCHANGED rvars

\* JSON.parse on the texts of VariableInputs: only ValidJson is JSON.
JsonParses(text) == text = ValidJson
JsonParse(text) == IF text = ValidJson THEN "{a: 1}" ELSE "SyntaxError"

\* defaultVariablesParser (lines 67-74): a falsy input (undefined, "") is no
\* variables, text is JSON.parse'd, a mapping is taken as it is.
DefaultVariablesThrows(variables) ==
  /\ variables.kind = "string"
  /\ variables.text # ""
  /\ ~JsonParses(variables.text)

defaultVariablesParser(variables) ==
  CASE variables.kind = "undefined" -> None
    [] variables.kind = "string" ->
         IF variables.text = "" THEN None ELSE Some(JsonParse(variables.text))
    [] variables.kind = "object" -> Some(variables.value)

\* parseVariables (lines 76-85): whatever the decoder throws becomes a 400.
ParseVariables ==
  /\ pc = "variables"
  /\ Call("variablesFactory")
  /\ LET invalid == Throw(HttpError(400, "Variables are invalid JSON.", None, None),
                          "variables") /\ UNCHANGED variableValues
     IN IF options.variablesFactory
        THEN \/ \E v \in {None, Some("decoded")} :
                  /\ variableValues' = v
                  /\ pc' = "context"
                  /\ UNCHANGED <<executionError, error, failedStage>>
             \/ invalid
        ELSE IF DefaultVariablesThrows(options.variables)
             THEN invalid
             ELSE /\ variableValues' = defaultVariablesParser(options.variables)
                  /\ pc' = "context"
                  /\ UNCHANGED <<executionError, error, failedStage>>
  /\ UNCHANGED <<options, document, validationErrors, operation, context, rootValue,
                 raw, result, outcome, chunks, subscribed, unsubscribed>>
  /\ UNCHANGED dvars
  /\ UNCHANGED rvars

\* ContextFactory with the factory's exception noted and the request carried on.
ContextFactory_CarriesOn ==
  /\ pc = "context"
  /\ IF options.contextFactory
     THEN /\ Call("contextFactory")
          /\ \/ /\ context' = Some("ctx")
                /\ UNCHANGED <<executionError, error, failedStage>>
             \/ /\ \E e \in Thrown : executionError' = Some(e)
                /\ failedStage' = "context"
                /\ UNCHANGED <<context, error>>
     ELSE /\ context' = Some("{}")
          /\ UNCHANGED <<executionError, error, failedStage, calls>>
  /\ pc' = "rootValue"
  /\ UNCHANGED <<options, document, validationErrors, operation, variableValues,
                 rootValue, raw, result, outcome, chunks, subscribed, unsubscribed>>
  /\ UNCHANGED dvars
  /\ UNCHANGED rvars

\* context = contextFactory ? await contextFactory(executionContext) : {}
ContextFactory ==
  /\ pc = "context"
  /\ IF options.contextFactory
     THEN /\ Call("contextFactory")
          /\ \/ /\ context' = Some("ctx")
                /\ pc' = "rootValue"
                /\ UNCHANGED <<executionError, error, failedStage>>
             \/ \E e \in Thrown : ThrowInner(e, "context") /\ UNCHANGED context
     ELSE /\ context' = Some("{}")
          /\ pc' = "rootValue"
          /\ UNCHANGED <<executionError, error, failedStage, calls>>
  /\ UNCHANGED <<options, document, validationErrors, operation, variableValues, rootValue,
                 raw, result, outcome, chunks, subscribed, unsubscribed>>
  /\ UNCHANGED dvars
  /\ UNCHANGED rvars

\* rootValue = rootValueFactory ? await rootValueFactory(executionContext) : {}
RootValueFactory ==
  /\ pc = "rootValue"
  /\ IF options.rootValueFactory
     THEN /\ Call("rootValueFactory")
          /\ \/ /\ rootValue' = Some("root")
                /\ pc' = "run"
                /\ UNCHANGED <<executionError, error, failedStage>>
             \/ \E e \in Thrown : ThrowInner(e, "rootValue") /\ UNCHANGED rootValue
     ELSE /\ rootValue' = Some("{}")
          /\ pc' = "run"
          /\ UNCHANGED <<executionError, error, failedStage, calls>>
  /\ UNCHANGED <<options, document, validationErrors, operation, variableValues, context,
                 raw, result, outcome, chunks, subscribed, unsubscribed>>
  /\ UNCHANGED dvars
  /\ UNCHANGED rvars

\* The collaborator that runs the operation: subscribe for a subscription,
\* execute for a query or a mutation (lines 179-187, 244-251).
Runner == IF operation[1].operation = "subscription" THEN "subscribe" ELSE "execute"

\* const result = await subscribe(...) / await execute(...)
ExecuteOrSubscribe ==
  /\ pc = "run"
  /\ Call(Runner)
  /\ \/ \E r \in SingleValues \cup Iterables :
          /\ raw' = Some(r)
          /\ pc' = "classify"
          /\ UNCHANGED <<executionError, error, failedStage>>
     \/ \E e \in Thrown : ThrowInner(e, Runner) /\ UNCHANGED raw
  /\ UNCHANGED <<options, document, validationErrors, operation, variableValues, context, rootValue,
                 result, outcome, chunks, subscribed, unsubscribed>>
  /\ UNCHANGED dvars
  /\ UNCHANGED rvars

\* formatPayload({payload, context, rootValue, document, operation}): the
\* default hook returns the payload itself (line 93); a supplied hook returns a
\* payload of its own making, or throws.
FormatPayload(payload) ==
  IF options.formatPayload THEN [formatted |-> payload] ELSE payload

\* The three shapes of ProcessRequestResult. A streaming result holds two
\* closures: subscribe either hands one payload to onResult ("once") or drains
\* the asynchronous sequence ("forAwait"); unsubscribe either does nothing
\* ("noop") or stops the sequence ("stopAsyncIteration").
Response(status, headers, payload) ==
  [type |-> "RESPONSE", status |-> status, headers |-> headers, payload |-> payload]

PushOnce(payload) ==
  [type |-> "PUSH", subscribe |-> [kind |-> "once", payload |-> payload],
   unsubscribe |-> "noop"]

Streaming(type) ==
  [type |-> type, subscribe |-> [kind |-> "forAwait"],
   unsubscribe |-> "stopAsyncIteration"]

\* return {...result, context, rootValue, document, operation} (lines 336-342)
Return(r) ==
  /\ result' = Some([context |-> context, rootValue |-> rootValue,
                     document |-> document, operation |-> operation] @@ r)
  /\ outcome' = "resolved"
  /\ pc' = "done"

\* StreamingShape with the accept header ignored for execute's sequences.
StreamingShape_IgnoresAccept ==
  IF operation[1].operation = "subscription"
  THEN IF isAsyncIterable(raw[1])
       THEN Some(Streaming("PUSH"))
       ELSE IF isEventStream THEN Some(PushOnce(raw[1].value)) ELSE None
  ELSE IF isAsyncIterable(raw[1])
       THEN Some(Streaming("MULTIPART_RESPONSE"))
       ELSE None

\* StreamingShape with subscribe's sequences framed as execute's are.
StreamingShape_SubscriptionFollowsAccept ==
  IF isAsyncIterable(raw[1])
  THEN Some(Streaming(IF isEventStream THEN "PUSH" ELSE "MULTIPART_RESPONSE"))
  ELSE IF operation[1].operation = "subscription" /\ isEventStream
       THEN Some(PushOnce(raw[1].value))
       ELSE None

\* StreamingShape with subscribe's errors answered as a RESPONSE to every client.
StreamingShape_ErrorsAsResponse ==
  IF operation[1].operation = "subscription"
  THEN IF isAsyncIterable(raw[1])
       THEN Some(Streaming("PUSH"))
       ELSE IF isEventStream /\ "errors" \notin DOMAIN raw[1].value
            THEN Some(PushOnce(raw[1].value))
            ELSE None
  ELSE IF isAsyncIterable(raw[1])
       THEN Some(Streaming(IF isEventStream THEN "PUSH" ELSE "MULTIPART_RESPONSE"))
       ELSE None

\* The delivery shape of what subscribe resolved with (lines 191-242) or of
\* what execute resolved with (lines 255-288), when no payload has to be
\* formatted to build it.
StreamingShape ==
  IF operation[1].operation = "subscription"
  THEN IF isAsyncIterable(raw[1])
       THEN Some(Streaming("PUSH"))
       ELSE IF isEventStream THEN Some(PushOnce(raw[1].value)) ELSE None
  ELSE IF isAsyncIterable(raw[1])
       THEN Some(Streaming(IF isEventStream THEN "PUSH" ELSE "MULTIPART_RESPONSE"))
       ELSE None

\* The continuation of await subscribe(...) / await execute(...): the result is
\* classified and returned; a single value that is not pushed is formatted
\* here, inside the inner try block.
Classify ==
  /\ pc = "classify"
  /\ IF StreamingShape # None
     THEN /\ Return(StreamingShape[1])
          /\ UNCHANGED <<executionError, error, failedStage, calls>>
     ELSE /\ Call("formatPayload")
          /\ \/ /\ Return(Response(200, <<>>, FormatPayload(raw[1].value)))
                /\ UNCHANGED <<executionError, error, failedStage>>
             \/ /\ options.formatPayload
                /\ \E e \in Thrown : ThrowInner(e, "formatPayload")
                /\ UNCHANGED <<result, outcome>>
  /\ UNCHANGED <<options, document, validationErrors, operation, variableValues, context, rootValue,
                 raw, chunks, subscribed, unsubscribed>>
  /\ UNCHANGED dvars
  /\ UNCHANGED rvars

\* WrapExecutionError keeping what the exception declares.
WrapExecutionError_KeepsDeclared(e) ==
  [status |-> IF e.status = None THEN Some(500) ELSE e.status,
   message |-> "Unexpected error encountered while executing GraphQL request.",
   headers |-> e.headers,
   graphqlErrors |-> Some(<<GraphQLError(e.message)>>)]

\* new HttpError(500, ..., {graphqlErrors: [new GraphQLError(executionError.message)]})
WrapExecutionError(e) ==
  HttpError(500, "Unexpected error encountered while executing GraphQL request.",
            None, Some(<<GraphQLError(e.message)>>))

\* catch (executionError) { throw new HttpError(500, ...) } (lines 290-298)
CatchExecutionError ==
  /\ pc = "catchExecution"
  /\ error' = Some(WrapExecutionError(executionError[1]))
  /\ pc' = "catch"
  /\ UNCHANGED <<options, document, validationErrors, operation, variableValues, context, rootValue,
                 raw, executionError, result, outcome, calls, failedStage, chunks,
                 subscribed, unsubscribed>>
  /\ UNCHANGED dvars
  /\ UNCHANGED rvars

\* { errors: error.graphqlErrors || [new GraphQLError(error.message)] }
ErrorPayload(e) ==
  [errors |-> IF e.graphqlErrors # None
              THEN e.graphqlErrors[1]
              ELSE <<GraphQLError(e.message)>>]

\* error.status || 500
ErrorStatus(e) == IF e.status # None /\ e.status[1] # 0 THEN e.status[1] ELSE 500

\* error.headers || []
ErrorHeaders(e) == IF e.headers # None THEN e.headers[1] ELSE <<>>

\* catch (error) { ... } (lines 299-333): the error payload is pushed as one
\* chunk to an event-stream client and is otherwise formatted into a RESPONSE;
\* an exception of the formatting hook leaves the catch clause and the function.
CatchError ==
  /\ pc = "catch"
  /\ LET payload == ErrorPayload(error[1]) IN
     IF isEventStream
     THEN /\ Return(PushOnce(payload))
          /\ UNCHANGED calls
     ELSE /\ Call("formatPayload")
          /\ \/ Return(Response(ErrorStatus(error[1]), ErrorHeaders(error[1]),
                                FormatPayload(payload)))
             \/ /\ options.formatPayload
                /\ outcome' = "rejected"
                /\ pc' = "done"
                /\ UNCHANGED result
  /\ UNCHANGED <<options, document, validationErrors, operation, variableValues, context, rootValue,
                 raw, executionError, error, failedStage, chunks, subscribed,
                 unsubscribed>>
  /\ UNCHANGED dvars
  /\ UNCHANGED rvars

\* The consumer calls subscribe(onResult) of a one-payload PUSH (lines 215-225,
\* 306-316): the payload is formatted and handed to onResult, and the call
\* resolves; an exception of the formatting hook rejects it.
SubscribeOnce ==
  /\ pc = "done"
  /\ outcome = "resolved"
  /\ result[1].type = "PUSH"
  /\ result[1].subscribe.kind = "once"
  /\ subscribed = "idle"
  /\ Call("formatPayload")
  /\ \/ /\ chunks' = Append(chunks, FormatPayload(result[1].subscribe.payload))
        /\ subscribed' = "resolved"
     \/ /\ options.formatPayload
        /\ subscribed' = "rejected"
        /\ UNCHANGED chunks
  /\ UNCHANGED <<options, pc, document, validationErrors, operation, variableValues, context,
                 rootValue, raw, executionError, error, result, outcome,
                 failedStage, unsubscribed>>
  /\ UNCHANGED dvars
  /\ UNCHANGED rvars

\* The consumer calls unsubscribe() of a one-payload PUSH: () => undefined
\* (lines 226, 317).
UnsubscribeOnce ==
  /\ pc = "done"
  /\ outcome = "resolved"
  /\ result[1].type = "PUSH"
  /\ result[1].unsubscribe = "noop"
  /\ unsubscribed < MaxUnsubscribe
  /\ unsubscribed' = unsubscribed + 1
  /\ UNCHANGED <<options, pc, document, validationErrors, operation, variableValues, context,
                 rootValue, raw, executionError, error, result, outcome, calls,
                 failedStage, chunks, subscribed>>
  /\ UNCHANGED dvars
  /\ UNCHANGED rvars

Next ==
  \/ CheckMethod
  \/ CheckQuery
  \/ ParseQuery
  \/ ValidateDocument
  \/ GetExecutableOperation
  \/ CheckMutation
  \/ ParseVariables
  \/ ContextFactory
  \/ RootValueFactory
  \/ ExecuteOrSubscribe
  \/ Classify
  \/ CatchExecutionError
  \/ CatchError
  \/ SubscribeOnce
  \/ UnsubscribeOnce

Spec == Init /\ [][Next]_vars

\* ---------------------------------------------------------------------------
\* Delivery: sendResult of response-node.ts drives the result over a Node
\* response, and a streaming result drains its asynchronous sequence.
\* ---------------------------------------------------------------------------

\* The longest asynchronous sequence.
MaxChunks == 2

\* The payloads a sequence yields, told apart by their data.
ElementData == <<"a", "b", "c", "d">>

\* The asynchronous sequences execute and subscribe resolve with: up to
\* MaxChunks payloads, each with its hasNext flag, after which the sequence
\* either ends or never yields again.
Sources ==
  UNION {{[items |-> [i \in 1..n |-> [data |-> ElementData[i], hasNext |-> f[i]]],
           ends |-> e] : f \in [1..n -> BOOLEAN], e \in BOOLEAN} : n \in 0..MaxChunks}

\* What the variables of processRequest hold when it has returned.
pvars == <<options, pc, document, validationErrors, operation, variableValues,
           context, rootValue, raw, executionError, error, result, outcome,
           failedStage>>

\* processRequest has returned, without a failure or with the failure of a
\* mutation over GET, for a request with a parsed document and default hooks
\* but for the formatting hook; nothing has been delivered yet.
DeliveryInit ==
  /\ \E acc \in Accepts, hook \in BOOLEAN, method \in {"GET", "POST"} :
       options = [request |-> [method |-> method,
                               headers |-> [hasGet |-> TRUE, accept |-> acc]],
                  query |-> [kind |-> "Document"],
                  variables |-> [kind |-> "undefined"],
                  operationName |-> None,
                  contextFactory |-> FALSE,
                  rootValueFactory |-> FALSE,
                  variablesFactory |-> FALSE,
                  formatPayload |-> hook]
  /\ pc = "done"
  /\ outcome = "resolved"
  /\ document = Some([kind |-> "Document"])
  /\ validationErrors = Some(<<>>)
  /\ operation \in {Some([operation |-> kind]) : kind \in OperationKinds}
  /\ executionError = None
  /\ chunks = <<>>
  /\ subscribed = "idle"
  /\ unsubscribed = 0
  /\ IF operation[1].operation = "mutation" /\ options.request.method = "GET"
     THEN /\ variableValues = None
          /\ context = None
          /\ rootValue = None
          /\ raw = None
          /\ failedStage = "mutation"
          /\ error = Some(HttpError(405,
                      "Can only perform a mutation operation from a POST request.",
                      Some(<<[name |-> "Allow", value |-> "POST"]>>), None))
          /\ calls = <<"validate", "getOperationAST">>
                       \o (IF isEventStream THEN <<>> ELSE <<"formatPayload">>)
          /\ result = Some([context |-> context, rootValue |-> rootValue,
                            document |-> document, operation |-> operation]
                           @@ (IF isEventStream
                               THEN PushOnce(ErrorPayload(error[1]))
                               ELSE Response(ErrorStatus(error[1]),
                                             ErrorHeaders(error[1]),
                                             FormatPayload(ErrorPayload(error[1])))))
          /\ source = NoSource
     ELSE /\ variableValues = defaultVariablesParser(options.variables)
          /\ context = Some("{}")
          /\ rootValue = Some("{}")
          /\ raw \in {Some(r) : r \in SingleValues \cup Iterables}
          /\ failedStage = "none"
          /\ error = None
          /\ calls = <<"validate", "getOperationAST", "variablesFactory", Runner>>
                       \o (IF StreamingShape # None THEN <<>> ELSE <<"formatPayload">>)
          /\ result = Some([context |-> context, rootValue |-> rootValue,
                            document |-> document, operation |-> operation]
                           @@ (IF StreamingShape # None
                               THEN StreamingShape[1]
                               ELSE Response(200, <<>>, FormatPayload(raw[1].value))))
          /\ IF isAsyncIterable(raw[1]) THEN source \in Sources ELSE source = NoSource
  /\ adapter = "idle"
  /\ wire = <<>>
  /\ connection = "open"
  /\ closeHandler = FALSE
  /\ pulled = 0
  /\ iter = "open"
  /\ returned = 0
  /\ unsubAt = <<>>
  /\ Unread

\* JSON.stringify(value): the text of the value.
Stringify(value) == [json |-> value]

\* Buffer.from(text, "utf8").length: the number of bytes of the text.
ByteLength(text) == [bytesOf |-> text]

\* result.hasNext, as the condition of an if statement.
HasNext(payload) == "hasNext" \in DOMAIN payload /\ payload.hasNext

\* The calls on rawResponse. A write either takes its data or throws.
WriteHead(status, headers) == [op |-> "writeHead", status |-> status, headers |-> headers]
OnClose == [op |-> "on", event |-> "close"]
SetStatusCode(status) == [op |-> "statusCode", status |-> status]
Write(data, ok) == [op |-> "write", data |-> data, ok |-> ok]
End(data) == [op |-> "end", data |-> data]

MultipartHead ==
  WriteHead(200, [Connection |-> "keep-alive",
                  ContentType |-> "multipart/mixed; boundary=\"-\"",
                  TransferEncoding |-> "chunked"])

PushHead ==
  WriteHead(200, [ContentType |-> "text/event-stream",
                  Connection |-> "keep-alive",
                  CacheControl |-> "no-cache"])

\* rawResponse.write("---")
OpeningBoundary == [kind |-> "boundary", text |-> "---"]

\* rawResponse.write("\r\n-----\r\n")
ClosingBoundary == [kind |-> "closing", text |-> "\r\n-----\r\n"]

\* MultipartPart, mutated: "---" follows every chunk.
MultipartPart_AlwaysBoundary(chunk) ==
  [kind |-> "part",
   lines |-> <<[text |-> ""],
               [text |-> "Content-Type: application/json; charset=utf-8"],
               [text |-> "Content-Length: ", length |-> ByteLength(Stringify(chunk))],
               [text |-> ""],
               Stringify(chunk),
               [text |-> "---"]>>,
   joinedBy |-> "\r\n"]

\* The part written for one chunk (lines 39-52): an empty line, the two
\* headers, an empty line and the chunk, then "---" if the chunk has hasNext,
\* joined by "\r\n".
MultipartPart(chunk) ==
  [kind |-> "part",
   lines |-> <<[text |-> ""],
               [text |-> "Content-Type: application/json; charset=utf-8"],
               [text |-> "Content-Length: ", length |-> ByteLength(Stringify(chunk))],
               [text |-> ""],
               Stringify(chunk)>>
             \o (IF HasNext(chunk) THEN <<[text |-> "---"]>> ELSE <<>>),
   joinedBy |-> "\r\n"]

\* `data: ${JSON.stringify(result)}\n\n` (line 77)
PushEvent(chunk) == [kind |-> "event", data |-> Stringify(chunk), end |-> "\n\n"]

\* What the adapter's callback writes for one chunk.
Frame(chunk) ==
  IF result[1].type = "MULTIPART_RESPONSE" THEN MultipartPart(chunk) ELSE PushEvent(chunk)

\* return() of the asynchronous sequence: an open sequence is closed.
ReturnOf(state) == IF state = "open" THEN "closed" ELSE state

\* sendResponseResult (lines 13-19)
SendResponseResult ==
  /\ adapter = "idle"
  /\ result[1].type = "RESPONSE"
  /\ wire' = wire \o <<SetStatusCode(result[1].status),
                       End(Stringify(result[1].payload))>>
  /\ adapter' = "done"
  /\ UNCHANGED <<pvars, calls, chunks, subscribed, unsubscribed, connection,
                 closeHandler, source, pulled, iter, returned, unsubAt>>
  /\ UNCHANGED rvars

\* What follows await multipartResult.subscribe(...) (lines 55-57) and await
\* pushResult.subscribe(...) (line 79), given the calls made so far: the
\* multipart adapter writes the closing boundary and ends the response; the
\* push adapter returns.
AfterSubscribe(calledSoFar) ==
  IF result[1].type = "MULTIPART_RESPONSE"
  THEN \/ /\ wire' = calledSoFar \o <<Write(ClosingBoundary, TRUE), End(None)>>
          /\ adapter' = "done"
       \/ /\ wire' = calledSoFar \o <<Write(ClosingBoundary, FALSE)>>
          /\ adapter' = "failed"
  ELSE /\ wire' = calledSoFar
       /\ adapter' = "done"

\* subscribe of a streaming result is called (lines 194-206, 258-270): the
\* for await loop asks the sequence for its first element; a sequence that was
\* closed before answers that it is done.
StartLoop(calledSoFar) ==
  IF iter = "open"
  THEN /\ subscribed' = "pending"
       /\ adapter' = "streaming"
       /\ wire' = calledSoFar
  ELSE /\ subscribed' = "resolved"
       /\ AfterSubscribe(calledSoFar)

\* sendMultipartResponseResult, mutated: no close handler is registered.
SendMultipartResponseResult_NoCloseHandler ==
  /\ adapter = "idle"
  /\ result[1].type = "MULTIPART_RESPONSE"
  /\ UNCHANGED closeHandler
  /\ \/ StartLoop(wire \o <<MultipartHead, Write(OpeningBoundary, TRUE)>>)
     \/ /\ wire' = wire \o <<MultipartHead, Write(OpeningBoundary, FALSE)>>
        /\ adapter' = "failed"
        /\ UNCHANGED subscribed
  /\ UNCHANGED <<pvars, calls, chunks, unsubscribed, connection, source, pulled,
                 iter, returned, unsubAt>>
  /\ UNCHANGED rvars

\* sendMultipartResponseResult up to its await (lines 21-38).
SendMultipartResponseResult ==
  /\ adapter = "idle"
  /\ result[1].type = "MULTIPART_RESPONSE"
  /\ closeHandler' = TRUE
  /\ \/ StartLoop(wire \o <<MultipartHead, OnClose, Write(OpeningBoundary, TRUE)>>)
     \/ /\ wire' = wire \o <<MultipartHead, OnClose, Write(OpeningBoundary, FALSE)>>
        /\ adapter' = "failed"
        /\ UNCHANGED subscribed
  /\ UNCHANGED <<pvars, calls, chunks, unsubscribed, connection, source, pulled,
                 iter, returned, unsubAt>>
  /\ UNCHANGED rvars

\* sendPushResult (lines 60-79) of a result whose subscribe drains a sequence,
\* up to its await.
SendPushResult ==
  /\ adapter = "idle"
  /\ result[1].type = "PUSH"
  /\ result[1].subscribe.kind = "forAwait"
  /\ closeHandler' = TRUE
  /\ StartLoop(wire \o <<PushHead, OnClose>>)
  /\ UNCHANGED <<pvars, calls, chunks, unsubscribed, connection, source, pulled,
                 iter, returned, unsubAt>>
  /\ UNCHANGED rvars

\* sendPushResult (lines 60-79) of a result whose subscribe hands over one
\* payload (lines 215-225, 306-316): the payload is formatted and written as
\* one event, and subscribe resolves; an exception of the hook or of the write
\* rejects subscribe and with it the adapter.
SendPushResultOnce ==
  /\ adapter = "idle"
  /\ result[1].type = "PUSH"
  /\ result[1].subscribe.kind = "once"
  /\ closeHandler' = TRUE
  /\ Call("formatPayload")
  /\ LET chunk == FormatPayload(result[1].subscribe.payload) IN
     \/ /\ chunks' = Append(chunks, chunk)
        /\ wire' = wire \o <<PushHead, OnClose, Write(PushEvent(chunk), TRUE)>>
        /\ subscribed' = "resolved"
        /\ adapter' = "done"
     \/ /\ chunks' = Append(chunks, chunk)
        /\ wire' = wire \o <<PushHead, OnClose, Write(PushEvent(chunk), FALSE)>>
        /\ subscribed' = "rejected"
        /\ adapter' = "failed"
     \/ /\ options.formatPayload
        /\ wire' = wire \o <<PushHead, OnClose>>
        /\ subscribed' = "rejected"
        /\ adapter' = "failed"
        /\ UNCHANGED chunks
  /\ UNCHANGED <<pvars, unsubscribed, connection, source, pulled, iter, returned,
                 unsubAt>>
  /\ UNCHANGED rvars

\* Deliver, mutated: the elements reach the callback last first.
Deliver_LastFirst ==
  /\ adapter = "streaming"
  /\ subscribed = "pending"
  /\ iter = "open"
  /\ pulled < Len(source.items)
  /\ pulled' = pulled + 1
  /\ Call("formatPayload")
  /\ LET chunk == FormatPayload(source.items[Len(source.items) - pulled])
         abort == /\ iter' = ReturnOf(iter)
                  /\ returned' = returned + 1
                  /\ subscribed' = "rejected"
                  /\ adapter' = "failed"
     IN \/ /\ chunks' = Append(chunks, chunk)
           /\ wire' = Append(wire, Write(Frame(chunk), TRUE))
           /\ UNCHANGED <<iter, returned, subscribed, adapter>>
        \/ /\ chunks' = Append(chunks, chunk)
           /\ wire' = Append(wire, Write(Frame(chunk), FALSE))
           /\ abort
        \/ /\ options.formatPayload
           /\ UNCHANGED <<chunks, wire>>
           /\ abort
  /\ UNCHANGED <<pvars, unsubscribed, connection, closeHandler, source, unsubAt>>
  /\ UNCHANGED rvars

\* The sequence yields its next element to the waiting loop (lines 195-205,
\* 259-269): the payload is formatted and handed to the adapter's callback,
\* which writes its frame, and the loop asks for the next element. An
\* exception of the hook or of the write leaves the loop, which closes the
\* sequence, and rejects subscribe and with it the adapter.
Deliver ==
  /\ adapter = "streaming"
  /\ subscribed = "pending"
  /\ iter = "open"
  /\ pulled < Len(source.items)
  /\ pulled' = pulled + 1
  /\ Call("formatPayload")
  /\ LET chunk == FormatPayload(source.items[pulled + 1])
         abort == /\ iter' = ReturnOf(iter)
                  /\ returned' = returned + 1
                  /\ subscribed' = "rejected"
                  /\ adapter' = "failed"
     IN \/ /\ chunks' = Append(chunks, chunk)
           /\ wire' = Append(wire, Write(Frame(chunk), TRUE))
           /\ UNCHANGED <<iter, returned, subscribed, adapter>>
        \/ /\ chunks' = Append(chunks, chunk)
           /\ wire' = Append(wire, Write(Frame(chunk), FALSE))
           /\ abort
        \/ /\ options.formatPayload
           /\ UNCHANGED <<chunks, wire>>
           /\ abort
  /\ UNCHANGED <<pvars, unsubscribed, connection, closeHandler, source, unsubAt>>
  /\ UNCHANGED rvars

\* The sequence ends: the loop and subscribe are over, and the adapter goes on.
SourceEnds ==
  /\ adapter = "streaming"
  /\ subscribed = "pending"
  /\ iter = "open"
  /\ pulled = Len(source.items)
  /\ source.ends
  /\ iter' = "done"
  /\ subscribed' = "resolved"
  /\ AfterSubscribe(wire)
  /\ UNCHANGED <<pvars, calls, chunks, unsubscribed, connection, closeHandler,
                 source, pulled, returned, unsubAt>>
  /\ UNCHANGED rvars

\* stopAsyncIteration(result) of ./util: return() of the sequence is called.
\* A loop waiting for the next element is told that the sequence is done, so
\* that subscribe resolves and the adapter goes on.
stopAsyncIteration ==
  /\ iter' = ReturnOf(iter)
  /\ returned' = returned + 1
  /\ IF subscribed = "pending"
     THEN /\ subscribed' = "resolved"
          /\ AfterSubscribe(wire)
     ELSE UNCHANGED <<subscribed, adapter, wire>>

\* unsubscribe, mutated: every call settles subscribe anew, so that the
\* adapter goes on after it once more.
unsubscribe_SettlesAgain(caller) ==
  /\ unsubscribed' = unsubscribed + 1
  /\ unsubAt' = Append(unsubAt, [at |-> subscribed, by |-> caller])
  /\ IF result[1].unsubscribe = "stopAsyncIteration"
     THEN /\ iter' = ReturnOf(iter)
          /\ returned' = returned + 1
          /\ IF subscribed \in {"pending", "resolved"}
             THEN /\ subscribed' = "resolved"
                  /\ AfterSubscribe(wire)
             ELSE UNCHANGED <<subscribed, adapter, wire>>
     ELSE UNCHANGED <<iter, returned, subscribed, adapter, wire>>

\* unsubscribe, mutated: () => undefined on every streaming result.
unsubscribe_DoesNothing(caller) ==
  /\ unsubscribed' = unsubscribed + 1
  /\ unsubAt' = Append(unsubAt, [at |-> subscribed, by |-> caller])
  /\ UNCHANGED <<iter, returned, subscribed, adapter, wire>>

\* unsubscribe, mutated: the waiting loop is told that the sequence is done,
\* but return() of the sequence is not called.
unsubscribe_OnlySilences(caller) ==
  /\ unsubscribed' = unsubscribed + 1
  /\ unsubAt' = Append(unsubAt, [at |-> subscribed, by |-> caller])
  /\ UNCHANGED <<iter, returned>>
  /\ IF result[1].unsubscribe = "stopAsyncIteration" /\ subscribed = "pending"
     THEN /\ subscribed' = "resolved"
          /\ AfterSubscribe(wire)
     ELSE UNCHANGED <<subscribed, adapter, wire>>

\* result.unsubscribe(), called by the caller: () => { stopAsyncIteration(result) }
\* of a result that drains a sequence (lines 207-209, 271-273), () => undefined
\* of a result that hands over one payload (lines 226, 317).
unsubscribe(caller) ==
  /\ unsubscribed' = unsubscribed + 1
  /\ unsubAt' = Append(unsubAt, [at |-> subscribed, by |-> caller])
  /\ IF result[1].unsubscribe = "stopAsyncIteration"
     THEN stopAsyncIteration
     ELSE UNCHANGED <<iter, returned, subscribed, adapter, wire>>

\* The owner of a streaming result calls its unsubscribe.
Unsubscribe ==
  /\ result[1].type \in {"PUSH", "MULTIPART_RESPONSE"}
  /\ unsubscribed < MaxUnsubscribe
  /\ unsubscribe("owner")
  /\ UNCHANGED <<pvars, calls, chunks, connection, closeHandler, source, pulled>>
  /\ UNCHANGED rvars

\* The physical connection closes: rawResponse emits "close", and the handler
\* the streaming adapters registered (lines 32-34, 71-73) calls unsubscribe.
Close ==
  /\ connection = "open"
  /\ connection' = "closed"
  /\ IF closeHandler
     THEN unsubscribe("close")
     ELSE UNCHANGED <<unsubscribed, unsubAt, iter, returned, subscribed, adapter, wire>>
  /\ UNCHANGED <<pvars, calls, chunks, closeHandler, source, pulled>>
  /\ UNCHANGED rvars

DeliveryNext ==
  \/ SendResponseResult
  \/ SendMultipartResponseResult
  \/ SendPushResult
  \/ SendPushResultOnce
  \/ Deliver
  \/ SourceEnds
  \/ Unsubscribe
  \/ Close

SpecDelivery == DeliveryInit /\ [][DeliveryNext]_vars

\* ---------------------------------------------------------------------------
\* Properties
\* ---------------------------------------------------------------------------

Range(seq) == {seq[i] : i \in 1..Len(seq)}
Count(seq, x) == Cardinality({i \in 1..Len(seq) : seq[i] = x})

done == pc = "done"
resolved == outcome = "resolved"
res == result[1]
selected == operation[1].operation

\* The fields the final return statement adds to every result.
Captured == [context |-> context, rootValue |-> rootValue,
             document |-> document, operation |-> operation]

executeReturnedSequence ==
  /\ raw # None
  /\ raw[1].kind = "iterable"
  /\ selected \in {"query", "mutation"}

\* C1: when execute returns an asynchronous sequence for a query or a mutation,
\* processRequest resolves with type PUSH if the accept header is
\* text/event-stream and with type MULTIPART_RESPONSE if it is anything else;
\* the type is a function of the accept header alone.
C1_IncrementalShapeFollowsAccept ==
  (done /\ executeReturnedSequence) =>
    /\ resolved
    /\ res.type = IF accept = Some("text/event-stream")
                  THEN "PUSH" ELSE "MULTIPART_RESPONSE"

C1_Witness ==
  /\ done /\ executeReturnedSequence
  /\ accept = Some("application/json")
  /\ resolved /\ res.type = "MULTIPART_RESPONSE"

subscribeReturned ==
  /\ raw # None
  /\ selected = "subscription"

\* C2 as stated: whenever subscribe returns for a subscription, the result is
\* a PUSH, with or without event-stream framing.
C2_Original ==
  (done /\ subscribeReturned) => (resolved /\ res.type = "PUSH")

\* C2: when subscribe returns an asynchronous sequence the result is a PUSH
\* with or without event-stream framing; when it returns a single value the
\* result is a PUSH only for an event-stream client, and every other result
\* returned is a RESPONSE.
C2_SubscriptionShape ==
  (done /\ subscribeReturned) =>
    /\ raw[1].kind = "iterable" => (resolved /\ res.type = "PUSH")
    /\ (raw[1].kind = "single" /\ isEventStream) => (resolved /\ res.type = "PUSH")
    /\ (raw[1].kind = "single" /\ ~isEventStream /\ resolved) => res.type = "RESPONSE"

C2_Witness ==
  /\ done /\ subscribeReturned
  /\ raw[1].kind = "iterable"
  /\ ~isEventStream
  /\ resolved /\ res.type = "PUSH"

subscribeReturnedSingle ==
  /\ subscribeReturned
  /\ raw[1].kind = "single"

\* C3 as stated: a single value from subscribe gives, by the event-stream
\* preference alone, a PUSH whose subscribe delivers exactly one chunk and
\* resolves, or a RESPONSE with status 200 and no headers.
C3_Original ==
  (done /\ subscribeReturnedSingle) =>
    IF isEventStream
    THEN /\ resolved
         /\ res.type = "PUSH"
         /\ subscribed # "idle" => (subscribed = "resolved" /\ Len(chunks) = 1)
    ELSE /\ resolved
         /\ res.type = "RESPONSE"
         /\ res.status = 200
         /\ res.headers = <<>>

\* C3: a single value from subscribe is classified by the event-stream
\* preference alone, whatever it holds. For an event-stream client the result
\* is a PUSH holding the value; its subscribe hands exactly one chunk, the
\* formatted value, to the callback and resolves when the formatting hook
\* returns, and hands over nothing and rejects when the hook throws. For any
\* other client the value is formatted at once: the result is a RESPONSE with
\* status 200, no headers and the formatted value when the hook returns, and a
\* throwing hook is an execution failure with status 500.
C3_SingleValueShape ==
  (done /\ subscribeReturnedSingle) =>
    IF isEventStream
    THEN /\ resolved
         /\ res.type = "PUSH"
         /\ res.subscribe = [kind |-> "once", payload |-> raw[1].value]
         /\ failedStage = "none"
         /\ subscribed = "resolved" => chunks = <<FormatPayload(raw[1].value)>>
         /\ subscribed # "resolved" => chunks = <<>>
    ELSE IF failedStage = "none"
         THEN /\ resolved
              /\ res = Captured @@ [type |-> "RESPONSE", status |-> 200,
                                    headers |-> <<>>,
                                    payload |-> FormatPayload(raw[1].value)]
         ELSE /\ failedStage = "formatPayload"
              /\ error[1].status = Some(500)
              /\ resolved => (res.type = "RESPONSE" /\ res.status = 500)

C3_Witness ==
  /\ done /\ subscribeReturnedSingle
  /\ raw[1].value = [errors |-> <<GraphQLError("e")>>]
  /\ isEventStream
  /\ res.type = "PUSH"
  /\ subscribed = "resolved"
  /\ Len(chunks) = 1

getMutation ==
  /\ options.request.method = "GET"
  /\ operation # None
  /\ selected = "mutation"

AllowPost == <<[name |-> "Allow", value |-> "POST"]>>

MutationOverGet ==
  [errors |-> <<GraphQLError(
     "Can only perform a mutation operation from a POST request.")>>]

\* C4 as stated: the result of every GET request that selects a mutation has
\* status 405 and header Allow: POST, whatever its accept header, and execute
\* is not invoked.
C4_Original ==
  getMutation =>
    /\ "execute" \notin Range(calls)
    /\ (done /\ resolved) =>
         /\ res.type = "RESPONSE"
         /\ res.status = 405
         /\ res.headers = AllowPost

\* C4: every GET request that selects a mutation fails with a 405 failure
\* declaring Allow: POST, and neither the variables decoder, nor a factory,
\* nor execute is invoked for it. Every result returned for it is, for an
\* event-stream client, a one-chunk PUSH of the error payload, which carries
\* neither status nor headers, and for any other client a RESPONSE with
\* status 405 and header Allow: POST.
C4_MutationOverGet ==
  getMutation =>
    /\ Range(calls) \cap {"variablesFactory", "contextFactory",
                          "rootValueFactory", "execute", "subscribe"} = {}
    /\ pc \in {"catch", "done"} =>
         /\ failedStage = "mutation"
         /\ error[1].status = Some(405)
         /\ error[1].headers = Some(AllowPost)
    /\ (done /\ resolved) =>
         IF isEventStream
         THEN res = Captured @@ PushOnce(MutationOverGet)
         ELSE res = Captured @@ [type |-> "RESPONSE", status |-> 405,
                                 headers |-> AllowPost,
                                 payload |-> FormatPayload(MutationOverGet)]

C4_Witness ==
  /\ getMutation
  /\ done /\ resolved
  /\ ~isEventStream
  /\ options.variables = [kind |-> "string", text |-> "not-json"]
  /\ res.status = 405

\* The errors list of the payload the error normaliser builds.
errorsList == ErrorPayload(error[1]).errors

parseFailed == failedStage = "parse"
validationFailed ==
  /\ failedStage = "validate"
  /\ validationErrors # None
  /\ Len(validationErrors[1]) > 0

\* C5 as stated: the result for a query text that fails to parse is a RESPONSE
\* with status 400 and one error, and the result for a document with N
\* validation errors has status 400 and N errors.
C5_Original ==
  /\ (done /\ resolved /\ parseFailed) =>
       /\ res.type = "RESPONSE"
       /\ res.status = 400
       /\ Len(errorsList) = 1
  /\ (done /\ resolved /\ validationFailed) =>
       /\ res.type = "RESPONSE"
       /\ res.status = 400
       /\ Len(errorsList) = Len(validationErrors[1])

\* C5: a query text that fails to parse is a failure with status 400 whose
\* errors list holds exactly the one syntax error, and a document for which
\* validate reports N > 0 errors is a failure with status 400 whose errors list
\* is the list of all N. Every result returned for either is, for a client
\* that did not ask for an event stream, a RESPONSE with status 400, no
\* headers and that errors list as formatted payload, and for an event-stream
\* client a one-chunk PUSH of that errors list.
C5_SyntaxAndValidation ==
  /\ (pc \in {"catch", "done"} /\ parseFailed) =>
       /\ error[1].status = Some(400)
       /\ Len(errorsList) = 1
       /\ errorsList[1] \in SyntaxErrors
  /\ (pc \in {"catch", "done"} /\ validationFailed) =>
       /\ error[1].status = Some(400)
       /\ errorsList = validationErrors[1]
       /\ Len(errorsList) = Len(validationErrors[1])
  /\ (done /\ resolved /\ (parseFailed \/ validationFailed)) =>
       IF isEventStream
       THEN res = Captured @@ PushOnce([errors |-> errorsList])
       ELSE res = Captured @@ [type |-> "RESPONSE", status |-> 400,
                               headers |-> <<>>,
                               payload |-> FormatPayload([errors |-> errorsList])]

C5_Witness ==
  /\ done /\ resolved
  /\ validationFailed
  /\ Len(validationErrors[1]) = MaxValidationErrors
  /\ res.type = "RESPONSE"
  /\ res.status = 400
  /\ Len(errorsList) = MaxValidationErrors

failed == failedStage # "none"

declaredStatus == IF error[1].status = None THEN 500 ELSE error[1].status[1]
declaredHeaders == IF error[1].headers = None THEN <<>> ELSE error[1].headers[1]

\* C6: for every failure of the preparation, setup or execution stages, an
\* event-stream client gets a PUSH whose subscribe delivers exactly one chunk,
\* the errors payload, and whose unsubscribe has no effect; any other client
\* gets a RESPONSE with the failure's declared status (500 when none) and its
\* declared headers (none when none).
C6_ErrorKeepsTransportShape ==
  (done /\ failed) =>
    /\ resolved
    /\ IF isEventStream
       THEN /\ res.type = "PUSH"
            /\ res.subscribe.payload = [errors |-> errorsList]
            /\ res.unsubscribe = "noop"
            /\ subscribed # "idle" =>
                 (subscribed = "resolved" /\ Len(chunks) = 1)
       ELSE /\ res.type = "RESPONSE"
            /\ res.status = declaredStatus
            /\ res.headers = declaredHeaders

\* C7: processRequest never rejects; a failure of any collaborator, the
\* payload formatting hook included, resolves with one of the three result
\* types.
C7_NeverRejects ==
  /\ outcome # "rejected"
  /\ done => (resolved /\ res.type \in {"RESPONSE", "MULTIPART_RESPONSE", "PUSH"})

\* The position of each stage in the order of lines 122-251, and the stage at
\* which each collaborator is invoked.
StageIndex ==
  [method |-> 1, query |-> 2, parse |-> 3, validate |-> 4, operation |-> 5,
   mutation |-> 6, variables |-> 7, context |-> 8, rootValue |-> 9,
   execute |-> 10, subscribe |-> 10, formatPayload |-> 11]

CallStage ==
  [parse |-> 3, validate |-> 4, getOperationAST |-> 5, variablesFactory |-> 7,
   contextFactory |-> 8, rootValueFactory |-> 9, execute |-> 10,
   subscribe |-> 10, formatPayload |-> 11]

\* What the caught failure is when the given stage failed first.
Reports(stage, e) ==
  CASE stage = "method"    -> e.status = Some(405) /\ e.headers # None
    [] stage = "query"     -> e = HttpError(400, "Must provide query string.", None, None)
    [] stage = "parse"     -> e.status = Some(400) /\ e.message = "GraphQL syntax error."
    [] stage = "validate"  -> \/ e = HttpError(400, "GraphQL validation error.",
                                               None, validationErrors)
                              \/ validationErrors = None /\ e \in Thrown
    [] stage = "operation" -> \/ e = HttpError(400,
                                     "Could not determine what operation to execute.",
                                     None, None)
                              \/ operation = None /\ e \in Thrown
    [] stage = "mutation"  -> e.status = Some(405) /\ e.headers = Some(AllowPost)
    [] stage = "variables" -> e = HttpError(400, "Variables are invalid JSON.", None, None)
    [] OTHER               -> /\ e.status = Some(500)
                              /\ e.graphqlErrors =
                                   Some(<<GraphQLError(executionError[1].message)>>)

\* C8: the collaborators are invoked in the order parse, validate, operation
\* selection, variables decoding, context factory, root factory, execute or
\* subscribe, each at most once; the caught failure is that of the first stage
\* that failed; after a failure no collaborator of a later stage is invoked;
\* and an absent query is a 400 failure with parse never invoked.
C8_StagesInOrder ==
  /\ \A i, j \in 1..Len(calls) :
       (i < j /\ calls[i] # "formatPayload") => CallStage[calls[i]] < CallStage[calls[j]]
  /\ failed =>
       \A i \in 1..Len(calls) :
         calls[i] = "formatPayload" \/ CallStage[calls[i]] <= StageIndex[failedStage]
  /\ (failed /\ pc \in {"catch", "done"}) => Reports(failedStage, error[1])
  /\ options.query.kind = "null" =>
       /\ "parse" \notin Range(calls)
       /\ done => (failedStage \in {"method", "query"} /\ error[1].status # Some(500))
       /\ (done /\ options.request.method \in {"GET", "POST"}) =>
            (failedStage = "query" /\ error[1].status = Some(400))

C8_Witness ==
  /\ done
  /\ options.query.kind = "null"
  /\ failedStage = "query"
  /\ error[1].status = Some(400)
  /\ resolved /\ res.type = "RESPONSE" /\ res.status = 400
  /\ calls = <<"formatPayload">>

Position(seq, x) == CHOOSE i \in 1..Len(seq) : seq[i] = x

prepared ==
  /\ document # None
  /\ operation # None
  /\ "variablesFactory" \in Range(calls)
  /\ failedStage \notin {"method", "query", "parse", "validate", "operation",
                         "mutation", "variables"}

\* C9: the context factory and the root-value factory are each invoked at most
\* once, only after parse, validation, operation selection and variables
\* decoding succeeded, and before execute or subscribe; when either fails,
\* neither execute nor subscribe is invoked, and when the context factory
\* fails, the root-value factory is not invoked either.
C9_FactoriesOnceBeforeExecution ==
  /\ Count(calls, "contextFactory") <= 1
  /\ Count(calls, "rootValueFactory") <= 1
  /\ \A f \in {"contextFactory", "rootValueFactory"} :
       f \in Range(calls) =>
         /\ prepared
         /\ Position(calls, "variablesFactory") < Position(calls, f)
         /\ \A r \in {"execute", "subscribe"} :
              r \in Range(calls) => Position(calls, f) < Position(calls, r)
  /\ ("contextFactory" \in Range(calls) /\ "rootValueFactory" \in Range(calls)) =>
       Position(calls, "contextFactory") < Position(calls, "rootValueFactory")
  /\ (Range(calls) \cap {"execute", "subscribe"} # {}) =>
       /\ options.contextFactory => "contextFactory" \in Range(calls)
       /\ options.rootValueFactory => "rootValueFactory" \in Range(calls)
       /\ context # None /\ rootValue # None
  /\ failedStage \in {"context", "rootValue"} =>
       Range(calls) \cap {"execute", "subscribe"} = {}
  /\ failedStage = "context" => "rootValueFactory" \notin Range(calls)

C9_Witness ==
  /\ done
  /\ options.contextFactory /\ options.rootValueFactory
  /\ failedStage = "rootValue"
  /\ calls[Len(calls)] = "formatPayload"
  /\ Count(calls, "contextFactory") = 1
  /\ Count(calls, "rootValueFactory") = 1
  /\ Range(calls) \cap {"execute", "subscribe"} = {}

executionFailed ==
  /\ failedStage \in {"execute", "subscribe"}
  /\ pc \in {"catch", "done"}

\* C10: an exception of execute or subscribe is not what the request boundary
\* catches: it catches a failure with status 500, no headers and an errors list
\* of exactly one generic error made from the exception's message, whatever
\* status, headers or errors the exception itself declares; a RESPONSE
\* returned for it has status 500 and no headers.
C10_ExecutionErrorWrapped ==
  executionFailed =>
    /\ error[1] # executionError[1]
    /\ error[1].status = Some(500)
    /\ error[1].headers = None
    /\ errorsList = <<GraphQLError(executionError[1].message)>>
    /\ (done /\ resolved /\ ~isEventStream) =>
         /\ res.type = "RESPONSE"
         /\ res.status = 500
         /\ res.headers = <<>>
         /\ res.payload = FormatPayload(
              [errors |-> <<GraphQLError(executionError[1].message)>>])

C10_Witness ==
  /\ executionFailed
  /\ failedStage = "subscribe"
  /\ executionError[1] = DeclaringError
  /\ done /\ resolved
  /\ res.type = "RESPONSE"
  /\ res.status = 500

\* ---------------------------------------------------------------------------
\* Properties of delivery
\* ---------------------------------------------------------------------------

streaming == res.type \in {"PUSH", "MULTIPART_RESPONSE"}
drains == streaming /\ res.subscribe.kind = "forAwait"
multipart == res.type = "MULTIPART_RESPONSE"

\* The positions of the calls on rawResponse, by what they are.
Writes(w) == {i \in 1..Len(w) : w[i].op = "write"}
Written(w) == {i \in Writes(w) : w[i].ok}
Failed(w) == {i \in Writes(w) : ~w[i].ok}
Closings(w) == {i \in Writes(w) : w[i].data.kind = "closing"}
Openings(w) == {i \in Writes(w) : w[i].data.kind = "boundary"}
Frames(w) == {i \in Writes(w) : w[i].data.kind \in {"part", "event"}}
Ends(w) == {i \in 1..Len(w) : w[i].op = "end"}
Heads(w) == {i \in 1..Len(w) : w[i].op = "writeHead"}

unsubscribeCalled == unsubscribed' = unsubscribed + 1

\* The state of subscribe at each unsubscribe call, and who made the call.
unsubscribedAt == [i \in 1..Len(unsubAt) |-> unsubAt[i].at]
unsubscribedBy == [i \in 1..Len(unsubAt) |-> unsubAt[i].by]

\* C11: unsubscribe of a MULTIPART_RESPONSE or PUSH result may be called
\* before subscribe, while subscribe waits and after it has completed, once
\* or twice: no call rejects subscribe, the closing boundary and end() happen
\* at most once, and a second call changes nothing on the transport, on the
\* adapter or on subscribe.
C11_UnsubscribeIdempotent ==
  [][(streaming /\ unsubscribeCalled) =>
       /\ Cardinality(Closings(wire')) <= 1
       /\ Cardinality(Ends(wire')) <= 1
       /\ subscribed' = "rejected" => subscribed = "rejected"
       /\ unsubscribed >= 1 =>
            /\ wire' = wire
            /\ adapter' = adapter
            /\ subscribed' = subscribed
            /\ iter' = iter]_vars

\* unsubscribe was called while subscribe waited and again when the
\* connection closed after end().
C11_Witness ==
  /\ multipart
  /\ unsubscribedAt = <<"pending", "resolved">>
  /\ unsubscribedBy = <<"owner", "close">>
  /\ Ends(wire) # {}
  /\ connection = "closed"

C13_UpstreamAbandoned ==
  /\ []((drains /\ unsubscribed >= 1) => (returned >= 1 /\ iter # "open"))
  /\ [][(drains /\ unsubscribed >= 1) => (pulled' = pulled /\ chunks' = chunks)]_vars

\* unsubscribe was called between two elements: one chunk was delivered, the
\* second element was never taken.
C13_Witness ==
  /\ drains
  /\ Len(source.items) = 2
  /\ pulled = 1
  /\ Len(chunks) = 1
  /\ unsubscribedAt = <<"pending">>
  /\ iter = "closed"
  /\ adapter = "done"

\* The connection closes in this step.
connectionCloses == connection = "open" /\ connection' = "closed"

\* C14: in both streaming adapters a close of the connection after the
\* headers were written, whatever subscribe is doing, calls unsubscribe of the
\* result; and the close handler is registered before subscribe is called.
C14_CloseUnsubscribes ==
  /\ [][(streaming /\ Heads(wire) # {} /\ connectionCloses) => unsubscribeCalled]_vars
  /\ []((streaming /\ subscribed # "idle") => closeHandler)

\* The connection closed between two chunks of a multipart delivery, and the
\* close handler called unsubscribe.
C14_Witness ==
  /\ multipart
  /\ Len(source.items) = 2
  /\ Len(chunks) = 1
  /\ connection = "closed"
  /\ unsubscribedAt = <<"pending">>
  /\ unsubscribedBy = <<"close">>
  /\ iter = "closed"

IsWrite(call) == call.op = "write"

\* What the adapter handed to rawResponse.write, call by call.
WriteData(w) == [i \in 1..Len(SelectSeq(w, IsWrite)) |-> SelectSeq(w, IsWrite)[i].data]

\* The lines of a part before its boundary marker: an empty line, the
\* content-type header, the content-length header with the byte length of the
\* serialized chunk, an empty line and the serialized chunk.
PartLines(chunk) ==
  <<[text |-> ""],
    [text |-> "Content-Type: application/json; charset=utf-8"],
    [text |-> "Content-Length: ", length |-> ByteLength(Stringify(chunk))],
    [text |-> ""],
    Stringify(chunk)>>

\* C15: the writes of a multipart delivery are: the opening boundary, then
\* for each chunk handed to the callback, in turn, one part made of the
\* content-type header, the content-length header, an empty line and the
\* serialized chunk, with a boundary marker after it if and only if the chunk
\* has hasNext true; the only write after the parts is the closing boundary.
C15_MultipartFraming ==
  multipart =>
    LET d == WriteData(wire) IN
    /\ Len(d) >= 1 => d[1].kind = "boundary" /\ d[1].text = "---"
    /\ Len(d) <= Len(chunks) + 2
    /\ Len(chunks) >= 1 => Len(d) >= Len(chunks) + 1
    /\ \A k \in 1..Len(chunks) :
         /\ d[k + 1].kind = "part"
         /\ d[k + 1].joinedBy = "\r\n"
         /\ Len(d[k + 1].lines) \in {5, 6}
         /\ SubSeq(d[k + 1].lines, 1, 5) = PartLines(chunks[k])
         /\ Len(d[k + 1].lines) = 6 <=> HasNext(chunks[k])
         /\ Len(d[k + 1].lines) = 6 => d[k + 1].lines[6] = [text |-> "---"]
    /\ Len(d) = Len(chunks) + 2 => d[Len(d)].kind = "closing"

\* A delivery of two chunks, the first with hasNext true and the second with
\* hasNext false, was written to its end.
C15_Witness ==
  /\ multipart
  /\ adapter = "done"
  /\ Len(chunks) = 2
  /\ HasNext(chunks[1])
  /\ ~HasNext(chunks[2])
  /\ Failed(wire) = {}
  /\ Cardinality(Writes(wire)) = 4

\* C16: in a multipart delivery, once the sequence has ended or the consumer
\* has disconnected, so that subscribe has resolved, the closing boundary has
\* been written exactly once and end() has been called exactly once after it;
\* neither ever happens twice and no part is written after the closing
\* boundary.
C16_ClosedExactlyOnce ==
  multipart =>
    /\ Cardinality(Closings(wire)) <= 1
    /\ Cardinality(Ends(wire)) <= 1
    /\ \A c \in Closings(wire) : \A f \in Frames(wire) : f < c
    /\ \A e \in Ends(wire) : \A c \in Writes(wire) : c < e
    /\ subscribed = "resolved" =>
         /\ Cardinality(Closings(wire) \cap Written(wire)) = 1
         /\ Cardinality(Ends(wire)) = 1

IsFrame(call) == call.op = "write" /\ call.data.kind \in {"part", "event"}

\* The frames handed to rawResponse.write, in order.
FrameCalls(w) == SelectSeq(w, IsFrame)

\* C17: for a result that drains a sequence, the frames written are those of
\* the elements taken from the sequence, formatted, one frame per element and
\* in the order of the sequence; only the element on which the formatting hook
\* or the write failed, which ends the stream, has no written frame.
C17_FramesFollowSequence ==
  drains =>
    LET f == FrameCalls(wire) IN
    /\ Len(f) = Len(chunks)
    /\ \A k \in 1..Len(chunks) :
         /\ chunks[k] = FormatPayload(source.items[k])
         /\ f[k].data = Frame(chunks[k])
         /\ k < Len(chunks) => f[k].ok
    /\ pulled \in {Len(chunks), Len(chunks) + 1}
    /\ pulled = Len(chunks) + 1 => subscribed = "rejected"
    /\ (Len(f) >= 1 /\ ~f[Len(f)].ok) => subscribed = "rejected"

\* A PUSH delivery wrote every element of its sequence (the longest of the
\* model) as one event each, and the sequence ended.
C17_Witness ==
  /\ res.type = "PUSH"
  /\ drains
  /\ Len(source.items) = MaxChunks
  /\ pulled = MaxChunks
  /\ iter = "done"
  /\ Cardinality(Frames(wire) \cap Written(wire)) = MaxChunks

\* C18: while a PUSH delivery is waiting on its sequence with the connection
\* open, the adapter has not ended the transport; once the sequence has ended
\* and the adapter has returned, unsubscribe has been called and the stream
\* has ended.
C18_PushEndsWithUnsubscribe ==
  (res.type = "PUSH" /\ drains) =>
    /\ (adapter = "streaming" /\ connection = "open") => Ends(wire) = {}
    /\ (adapter = "done" /\ iter = "done") =>
         /\ unsubscribed >= 1
         /\ Ends(wire) # {} \/ connection = "closed"

\* C19: a delivered RESPONSE has its status and every one of its headers
\* written to the transport, its payload serialized once as the body, and the
\* transport ended once.
C19_ResponseWritten ==
  (res.type = "RESPONSE" /\ adapter = "done") =>
    /\ \E i \in 1..Len(wire) :
         wire[i].op \in {"statusCode", "writeHead"} /\ wire[i].status = res.status
    /\ \A h \in Range(res.headers) :
         \E i \in 1..Len(wire) :
           \/ wire[i].op = "setHeader" /\ wire[i].header = h
           \/ wire[i].op = "writeHead" /\ h \in Range(wire[i].headers)
    /\ Cardinality(Ends(wire)) = 1
    /\ \A e \in Ends(wire) : wire[e].data = Stringify(res.payload)
    /\ Writes(wire) = {}

\* C20: when a write of a streaming delivery has failed after the headers
\* were written, the result is still the streaming result, the transport has
\* been ended and unsubscribe has been called.
C20_WriteFailureEndsStream ==
  (streaming /\ Heads(wire) # {} /\ Failed(wire) # {}) =>
    /\ res.type \in {"PUSH", "MULTIPART_RESPONSE"}
    /\ Ends(wire) # {}
    /\ unsubscribed >= 1

\* ---------------------------------------------------------------------------
\* The reader of the ReadableStream ponyfill (response-node.ts lines 191-264)
\* and sendNodeResponse (lines 146-185) reading a body through it.
\* ---------------------------------------------------------------------------

\* The most values a source enqueues, the most read() calls of a consumer
\* that holds the reader itself, and the most releaseLock() or cancel() calls.
MaxEnqueue == 3
MaxReads == 4
MaxReleases == 2

\* The results a read resolves with.
ValueResult(value) == [value |-> Some(value), done |-> FALSE]
DoneResult == [value |-> None, done |-> TRUE]

\* The closure variables of getReader, as one value.
Queues == [listening |-> listening, pullQueue |-> pullQueue,
           pushQueue |-> pushQueue, reads |-> reads]

SetQueues(q) ==
  /\ listening' = q.listening
  /\ pullQueue' = q.pullQueue
  /\ pushQueue' = q.pushQueue
  /\ reads' = q.reads

\* pushValue, mutated: the value is buffered even when a read waits.
pushValue_AlwaysBuffers(q, value) ==
  [q EXCEPT !.pushQueue = Append(q.pushQueue, ValueResult(value))]

\* pushValue (lines 199-205): the value goes to the read that waits longest,
\* or is buffered.
pushValue(q, value) ==
  IF Len(q.pullQueue) # 0
  THEN [q EXCEPT !.reads[Head(q.pullQueue)] = Some(ValueResult(value)),
                 !.pullQueue = Tail(q.pullQueue)]
  ELSE [q EXCEPT !.pushQueue = Append(q.pushQueue, ValueResult(value))]

\* pushDone (lines 207-213)
pushDone(q) ==
  IF Len(q.pullQueue) # 0
  THEN [q EXCEPT !.reads[Head(q.pullQueue)] = Some(DoneResult),
                 !.pullQueue = Tail(q.pullQueue)]
  ELSE [q EXCEPT !.pushQueue = Append(q.pushQueue, DoneResult)]

\* pullValue (lines 215-223): a new read takes the oldest buffered result, or
\* waits.
pullValue(q) ==
  IF Len(q.pushQueue) # 0
  THEN [q EXCEPT !.reads = Append(q.reads, Some(Head(q.pushQueue))),
                 !.pushQueue = Tail(q.pushQueue)]
  ELSE [q EXCEPT !.reads = Append(q.reads, None),
                 !.pullQueue = Append(q.pullQueue, Len(q.reads) + 1)]

\* emptyQueue (lines 225-235), but for the promise it returns: the first call
\* resolves every waiting read with done and empties both queues.
emptyQueue(q) ==
  IF q.listening
  THEN [listening |-> FALSE,
        pullQueue |-> <<>>,
        pushQueue |-> <<>>,
        reads |-> [i \in 1..Len(q.reads) |->
                     IF \E j \in 1..Len(q.pullQueue) : q.pullQueue[j] = i
                     THEN Some(DoneResult) ELSE q.reads[i]]]
  ELSE q

\* read() (lines 250-252): listening ? pullValue() : emptyQueue()
read(q) ==
  IF q.listening
  THEN pullValue(q)
  ELSE [emptyQueue(q) EXCEPT !.reads = Append(emptyQueue(q).reads, Some(DoneResult))]

\* What source.start(controller) does before it returns or first suspends
\* (line 248): it enqueues n values and then closes, or does not.
RECURSIVE startSource(_, _, _)
startSource(q, n, closes) ==
  IF n = 0
  THEN (IF closes THEN pushDone(q) ELSE q)
  ELSE LET before == startSource(q, n - 1, FALSE)
           now == pushValue(before, ElementData[n])
       IN IF closes THEN pushDone(now) ELSE now

\* getReader() (lines 194-263): fresh queues, then source.start(controller).
getReader(n, closes) ==
  startSource([listening |-> TRUE, pullQueue |-> <<>>, pushQueue |-> <<>>,
               reads |-> <<>>], n, closes)

\* const headersObj (lines 147-151): each header name with the list of its
\* values, in order.
HeadersObj(headers) ==
  LET Positions(name) == {i \in 1..Len(headers) : headers[i].name = name}
      Nth(name, k) == CHOOSE i \in Positions(name) :
                        Cardinality({j \in Positions(name) : j < i}) = k - 1
  IN [name \in {headers[i].name : i \in 1..Len(headers)} |->
        [k \in 1..Cardinality(Positions(name)) |-> headers[Nth(name, k)].value]]

\* The responses handed to sendNodeResponse.
NodeResponses ==
  {[status |-> 200, headers |-> <<>>],
   [status |-> 405, headers |-> <<[name |-> "Allow", value |-> "POST"]>>]}

\* processRequest and sendResult have not been called; no reader exists.
ReaderInit ==
  /\ Init
  /\ options = [request |-> [method |-> "GET",
                             headers |-> [hasGet |-> TRUE, accept |-> None]],
                query |-> [kind |-> "Document"],
                variables |-> [kind |-> "undefined"],
                operationName |-> None,
                contextFactory |-> FALSE,
                rootValueFactory |-> FALSE,
                variablesFactory |-> FALSE,
                formatPayload |-> FALSE]

\* What the reader actions leave alone.
others == <<options, pc, document, validationErrors, operation, variableValues,
            context, rootValue, raw, executionError, error, result, outcome,
            calls, failedStage, chunks, subscribed, unsubscribed, dvars>>

\* A consumer calls stream.getReader() (as BodyPonyfill.text does, line 294).
GetReader ==
  /\ reader = "none"
  /\ nodeLoop = "idle"
  /\ reader' = "open"
  /\ \E n \in 0..MaxEnqueue, closes \in BOOLEAN :
       /\ SetQueues(getReader(n, closes))
       /\ enqueued' = n
       /\ closeCalled' = closes
  /\ UNCHANGED <<cancelled, released, nodeLoop, nodeWire, nodeConnection,
                 nodeHandler, others>>

\* The source calls controller.enqueue(value) (lines 241-243).
Enqueue ==
  /\ reader = "open"
  /\ ~closeCalled
  /\ enqueued < MaxEnqueue
  /\ enqueued' = enqueued + 1
  /\ SetQueues(pushValue(Queues, ElementData[enqueued + 1]))
  /\ UNCHANGED <<reader, closeCalled, cancelled, released, nodeLoop, nodeWire,
                 nodeConnection, nodeHandler, others>>

\* The source calls controller.close() (lines 244-246).
CloseController ==
  /\ reader = "open"
  /\ ~closeCalled
  /\ closeCalled' = TRUE
  /\ SetQueues(pushDone(Queues))
  /\ UNCHANGED <<reader, enqueued, cancelled, released, nodeLoop, nodeWire,
                 nodeConnection, nodeHandler, others>>

\* The consumer that holds the reader calls reader.read() (lines 250-252),
\* whether its earlier reads have resolved or not.
Read ==
  /\ reader = "open"
  /\ nodeLoop = "idle"
  /\ Len(reads) < MaxReads
  /\ SetQueues(read(Queues))
  /\ UNCHANGED <<reader, enqueued, closeCalled, cancelled, released, nodeLoop,
                 nodeWire, nodeConnection, nodeHandler, others>>

\* releaseLock() (lines 253-256) and cancel() (lines 257-260) of the reader:
\* emptyQueue(), then source.cancel?.(controller).
releaseLock ==
  /\ released' = released + 1
  /\ SetQueues(emptyQueue(Queues))
  /\ cancelled' = cancelled + 1

\* The consumer that holds the reader calls releaseLock() or cancel().
ReleaseLock ==
  /\ reader = "open"
  /\ nodeLoop = "idle"
  /\ released < MaxReleases
  /\ releaseLock
  /\ UNCHANGED <<reader, enqueued, closeCalled, nodeLoop, nodeWire,
                 nodeConnection, nodeHandler, others>>

\* sendNodeResponse (lines 146-170) with a body of the ponyfill, which has
\* getReader and is not asynchronously iterable: the head is written, the
\* reader is obtained and the loop calls read() for the first time.
SendNodeResponse ==
  /\ reader = "none"
  /\ nodeLoop = "idle"
  /\ reader' = "open"
  /\ nodeLoop' = "reading"
  /\ \E response \in NodeResponses :
       nodeWire' = <<WriteHead(response.status, HeadersObj(response.headers))>>
  /\ \E n \in 0..MaxEnqueue, closes \in BOOLEAN :
       /\ SetQueues(read(getReader(n, closes)))
       /\ enqueued' = n
       /\ closeCalled' = closes
  /\ UNCHANGED <<cancelled, released, nodeConnection, nodeHandler, others>>

\* The read the loop awaits has resolved (lines 170-178): a value is written;
\* on done the response is ended, the loop is left and the close handler is
\* registered (lines 179-181); otherwise the loop calls read() again.
NodeLoopStep ==
  /\ nodeLoop = "reading"
  /\ reads[Len(reads)] # None
  /\ LET r == reads[Len(reads)][1]
         written == IF r.value # None
                    THEN Append(nodeWire, Write([kind |-> "body", value |-> r.value[1]], TRUE))
                    ELSE nodeWire
     IN IF r.done
        THEN /\ nodeWire' = written \o <<End(None), OnClose>>
             /\ nodeLoop' = "ended"
             /\ nodeHandler' = TRUE
             /\ UNCHANGED <<listening, pullQueue, pushQueue, reads>>
        ELSE /\ nodeWire' = written
             /\ SetQueues(read(Queues))
             /\ UNCHANGED <<nodeLoop, nodeHandler>>
  /\ UNCHANGED <<reader, enqueued, closeCalled, cancelled, released,
                 nodeConnection, others>>

\* The client connection closes: nodeResponse emits "close", and the handler,
\* if one is registered (lines 179-181), calls reader.releaseLock().
NodeClose ==
  /\ nodeLoop # "idle"
  /\ nodeConnection = "open"
  /\ nodeConnection' = "closed"
  /\ IF nodeHandler
     THEN releaseLock
     ELSE UNCHANGED <<released, cancelled, listening, pullQueue, pushQueue, reads>>
  /\ UNCHANGED <<reader, enqueued, closeCalled, nodeLoop, nodeWire, nodeHandler,
                 others>>

ReaderNext ==
  \/ GetReader
  \/ Enqueue
  \/ CloseController
  \/ Read
  \/ ReleaseLock
  \/ SendNodeResponse
  \/ NodeLoopStep
  \/ NodeClose

SpecReader == ReaderInit /\ [][ReaderNext]_vars

\* ---------------------------------------------------------------------------
\* Properties of the reader
\* ---------------------------------------------------------------------------

\* The results the source has pushed, in order: its values, then done if it
\* has closed.
Pushed ==
  [i \in 1..(enqueued + (IF closeCalled THEN 1 ELSE 0)) |->
     IF i <= enqueued THEN ValueResult(ElementData[i]) ELSE DoneResult]

\* C21: as long as the reader has not been released or cancelled, whatever
\* the order of the enqueue, close and read calls: the k-th read, once
\* resolved, holds the k-th enqueued value, and holds done if it is the first
\* read after all values and close was called; a read waits only while no
\* result is left for it, every result is buffered or with exactly one read,
\* and waiting reads and buffered results never exist together.
C21_ReadsFollowEnqueues ==
  (reader = "open" /\ listening) =>
    /\ pullQueue = <<>> \/ pushQueue = <<>>
    /\ \A k \in 1..Len(reads) :
         IF k <= Len(Pushed)
         THEN reads[k] = Some(Pushed[k])
         ELSE reads[k] = None
    /\ pullQueue = [j \in 1..(Len(reads) - Len(Pushed)) |-> Len(Pushed) + j]
    /\ pushQueue = [j \in 1..(Len(Pushed) - Len(reads)) |-> Pushed[Len(reads) + j]]

\* The source has enqueued two values and closed, and three reads have
\* resolved with the first value, the second value and done.
C21_Witness ==
  /\ reader = "open"
  /\ listening
  /\ nodeLoop = "idle"
  /\ enqueued = 2
  /\ closeCalled
  /\ Len(reads) = 3
  /\ reads[1] = Some(ValueResult("a"))
  /\ reads[2] = Some(ValueResult("b"))
  /\ reads[3] = Some(DoneResult)
  /\ pullQueue = <<>>
  /\ pushQueue = <<>>

\* C22: when the client connection has closed while sendNodeResponse is
\* still reading the body, releaseLock() of the reader has been called, so
\* that no read waits any more and the source has been cancelled.
C22_CloseReleasesReader ==
  (nodeLoop = "reading" /\ nodeConnection = "closed") =>
    /\ released >= 1
    /\ pullQueue = <<>>
    /\ cancelled >= 1
====
